---- MODULE Spec2Model ----
(***************************************************************************)
(* Model of analyze_specification.py: the folder-structure-v2 compliance   *)
(* classifier, the readme version-uniformity check and the organization    *)
(* scanner.  A path is a sequence of names; Chars gives the characters of a  *)
(* name, and the string operations of the Python code (substring tests,      *)
(* split, lower, character classes) are computed on sequences of characters. *)
(***************************************************************************)
EXTENDS Integers, Sequences, FiniteSets, TLC

VARIABLES
    folder_path,      \* compliance: segments of the folder below spec_base_path
    folder_files,     \* compliance: marker files os.path.exists finds in the folder
    verdict,          \* compliance: (is_compliant, reason) returned, or NoVerdict
    plane,            \* compliance: result of is_management_plane(folder_path)
    cpc,              \* compliance: "start" | "checked"
    namespace,        \* namespace check: the string handed to is_valid_namespace_pattern
    ns_result,        \* namespace check: the boolean returned
    npc,              \* namespace check: "start" | "done"
    tree,             \* scanner: the files of the organization's tree, each as its
                      \*          path below spec_base_path
    typespec_projects,      \* scanner: list of project roots found
    all_folders,            \* scanner: list of folders to check
    compliant_folders,      \* scanner: list of folders found compliant
    non_compliant_folders,  \* scanner: list of (folder, reason) found non-compliant
    org_record,             \* scanner: the record returned by analyze_organization
    opc,                    \* scanner: "find_typespec" | "collect" | "check" | "done"
    readme_files,               \* version check: the readme documents found, in walk order
    readme_index,               \* version check: how many of them the loop has handled
    has_version_uniform_issue,  \* version check: the flag returned
    problematic_readmes,        \* version check: the list of paths returned
    last_readme,                \* version check: locals of the last iteration
    rpc,                        \* version check: "loop" | "done"
    spec_dir,         \* driver: the entries of spec_base_path, in os.listdir order
    org_dirs,         \* driver: the organization directories, in os.listdir order
    results,          \* driver: the list of records
    mpc,              \* driver: "loop" | "summary"
    rm_readme,        \* rpaas check: the resource-manager readme files of the organization
    is_rpaas,         \* rpaas check: the boolean returned
    ppc               \* rpaas check: "start" | "done"

cvars == <<folder_path, folder_files, verdict, plane, cpc>>
nvars == <<namespace, ns_result, npc>>

ovars == <<tree, typespec_projects, all_folders, compliant_folders,
           non_compliant_folders, org_record, opc>>

rvars == <<readme_files, readme_index, has_version_uniform_issue,
           problematic_readmes, last_readme, rpc>>

dvars == <<spec_dir, org_dirs, results, mpc>>

pvars == <<rm_readme, is_rpaas, ppc>>

vars == <<cvars, nvars, ovars, rvars, dvars, pvars>>

(***************************************************************************)
(* Characters and strings                                                   *)
(***************************************************************************)
UpperSeq == <<"A","B","C","D","E","F","G","H","I","J","K","L","M","N","O","P","Q","R","S","T","U","V","W","X","Y","Z">>
LowerSeq == <<"a","b","c","d","e","f","g","h","i","j","k","l","m","n","o","p","q","r","s","t","u","v","w","x","y","z">>
DigitSeq == <<"0","1","2","3","4","5","6","7","8","9">>

Range(s) == {s[i] : i \in DOMAIN s}

UpperChars == Range(UpperSeq)
LowerChars == Range(LowerSeq)
DigitChars == Range(DigitSeq)

\* str.isupper() on one character
IsUpper(c) == c \in UpperChars

\* str.isalnum() on one character
IsAlnum(c) == c \in UpperChars \cup LowerChars \cup DigitChars

\* str.lower() on one character
LowerChar(c) ==
    IF c \in UpperChars
    THEN LowerSeq[CHOOSE i \in DOMAIN UpperSeq : UpperSeq[i] = c]
    ELSE c

\* str.lower()
Lower(s) == [i \in DOMAIN s |-> LowerChar(s[i])]

\* needle in s  (Python substring test)
Contains(s, needle) ==
    \E i \in 1..(Len(s) - Len(needle) + 1) :
        \A j \in 1..Len(needle) : s[i + j - 1] = needle[j]

\* s.endswith(suffix)
EndsWith(s, suffix) ==
    /\ Len(s) >= Len(suffix)
    /\ \A j \in 1..Len(suffix) : s[Len(s) - Len(suffix) + j] = suffix[j]

RECURSIVE Join(_, _)
\* sep.join(parts)
Join(parts, sep) ==
    IF Len(parts) = 0 THEN <<>>
    ELSE IF Len(parts) = 1 THEN parts[1]
    ELSE parts[1] \o sep \o Join(Tail(parts), sep)

RECURSIVE Split(_, _)
\* s.split(c) for a one-character separator c
Split(s, c) ==
    IF \A i \in DOMAIN s : s[i] # c THEN <<s>>
    ELSE LET k == CHOOSE i \in DOMAIN s :
                      s[i] = c /\ \A j \in 1..(i - 1) : s[j] # c
         IN  <<SubSeq(s, 1, k - 1)>> \o Split(SubSeq(s, k + 1, Len(s)), c)

Sep == <<"/">>
Dot == "."

RESOURCE_MANAGER == <<"r","e","s","o","u","r","c","e","-","m","a","n","a","g","e","r">>
DATA_PLANE       == <<"d","a","t","a","-","p","l","a","n","e">>
COMMON_TYPES     == <<"c","o","m","m","o","n","-","t","y","p","e","s">>
DOT_MANAGEMENT   == <<".","M","a","n","a","g","e","m","e","n","t">>
STABLE           == <<"s","t","a","b","l","e">>
PREVIEW          == <<"p","r","e","v","i","e","w">>
TSPCONFIG_YAML   == <<"t","s","p","c","o","n","f","i","g",".","y","a","m","l">>
MAIN_TSP         == <<"m","a","i","n",".","t","s","p">>
EXAMPLES         == <<"e","x","a","m","p","l","e","s">>
DOT_JSON         == <<".","j","s","o","n">>

\* the characters of the file and directory names of the model
Chars(name) ==
    CASE name = "" -> <<>>
      [] name = "co" -> <<"c","o">>
      [] name = "common-types" -> <<"c","o","m","m","o","n","-","t","y","p","e","s">>
      [] name = "resource-manager" -> <<"r","e","s","o","u","r","c","e","-","m","a","n","a","g","e","r">>
      [] name = "data-plane" -> <<"d","a","t","a","-","p","l","a","n","e">>
      [] name = "Ms.Co" -> <<"M","s",".","C","o">>
      [] name = "stable" -> <<"s","t","a","b","l","e">>
      [] name = "Preview" -> <<"P","r","e","v","i","e","w">>
      [] name = "resource-managers" -> <<"r","e","s","o","u","r","c","e","-","m","a","n","a","g","e","r","s">>
      [] name = "X.Management" -> <<"X",".","M","a","n","a","g","e","m","e","n","t">>
      [] name = "examples" -> <<"e","x","a","m","p","l","e","s">>
      [] name = "main.tsp" -> <<"m","a","i","n",".","t","s","p">>
      [] name = "tspconfig.yaml" -> <<"t","s","p","c","o","n","f","i","g",".","y","a","m","l">>
      [] name = "v1" -> <<"v","1">>
      [] name = "v2" -> <<"v","2">>
      [] name = "preview" -> PREVIEW
      [] name = "default-tag" -> <<"d","e","f","a","u","l","t","-","t","a","g">>
      [] name = "tag" -> <<"t","a","g">>
      [] name = "Basic Information" -> <<"B","a","s","i","c"," ","I","n","f","o","r","m","a","t","i","o","n">>
      [] name = "Configuration" -> <<"C","o","n","f","i","g","u","r","a","t","i","o","n">>
      [] name = "a.json" -> <<"a",".","j","s","o","n">>
      [] name = "Users" -> <<"U","s","e","r","s">>
      [] name = "qiaoqiaozhang" -> <<"q","i","a","o","q","i","a","o","z","h","a","n","g">>
      [] name = "code" -> <<"c","o","d","e">>
      [] name = "azure-rest-api-specs" -> <<"a","z","u","r","e","-","r","e","s","t","-","a","p","i","-","s","p","e","c","s">>
      [] name = ".github" -> <<".","g","i","t","h","u","b">>
      [] name = "suppressions.yaml" -> <<"s","u","p","p","r","e","s","s","i","o","n","s",".","y","a","m","l">>
      [] name = "openapi-subtype:" -> <<"o","p","e","n","a","p","i","-","s","u","b","t","y","p","e",":">>
      [] name = "OpenAPI-Subtype:" -> <<"O","p","e","n","A","P","I","-","S","u","b","t","y","p","e",":">>
      [] name = "rpaas" -> <<"r","p","a","a","s">>
      [] name = "RPaaS" -> <<"R","P","a","a","S">>
      [] name = "readme.md" -> <<"r","e","a","d","m","e",".","m","d">>
      [] name = "README.md" -> <<"R","E","A","D","M","E",".","m","d">>
      [] name = "examples.json" -> <<"e","x","a","m","p","l","e","s",".","j","s","o","n">>
      [] name = "specification" -> <<"s","p","e","c","i","f","i","c","a","t","i","o","n">>

\* the segments of a path, each as its characters
PathChars(segs) == [i \in DOMAIN segs |-> Chars(segs[i])]

\* main(): spec_base_path, as the segments of the absolute path
spec_base_path == <<"Users", "qiaoqiaozhang", "code", "azure-rest-api-specs", "specification">>

\* the absolute path string of a path given as segments ("/a/b/c")
AbsPath(segs) == Sep \o Join(PathChars(segs), Sep)

\* os.path.basename of a path given as segments
Basename(segs) == IF Len(segs) = 0 THEN "" ELSE segs[Len(segs)]

\* os.path.dirname of a path given as segments
Dirname(segs) == IF Len(segs) = 0 THEN <<>> ELSE SubSeq(segs, 1, Len(segs) - 1)

\* os.path.relpath(base \o below, base) as a string; "." for base itself
RelPath(below) == IF Len(below) = 0 THEN <<".">> ELSE Join(PathChars(below), Sep)

(***************************************************************************)
(* Path classifier                                                          *)
(***************************************************************************)
\* is_management_plane(project_or_file_path), path given as absolute segments
is_management_plane(path) ==
    LET folder_name == Chars(Basename(path))
    IN  \/ Contains(folder_name, DOT_MANAGEMENT)
        \/ Contains(AbsPath(path), RESOURCE_MANAGER)

\* is_pascal_case(s)
is_pascal_case(s) ==
    IF Len(s) = 0 \/ ~IsUpper(s[1]) THEN FALSE
    ELSE \A i \in DOMAIN s : IsAlnum(s[i]) \/ s[i] = Dot

\* mutant of is_valid_namespace_pattern: the number of parts is not tested
is_valid_namespace_pattern_AnyParts(ns) ==
    IF Dot \notin Range(ns) THEN FALSE
    ELSE LET parts == Split(ns, Dot)
         IN  \A k \in DOMAIN parts :
                 is_pascal_case(parts[k]) /\ Dot \notin Range(parts[k])

\* is_valid_namespace_pattern(namespace)
is_valid_namespace_pattern(ns) ==
    IF Dot \notin Range(ns) THEN FALSE
    ELSE LET parts == Split(ns, Dot)
         IN  IF Len(parts) # 2 THEN FALSE
             ELSE \A k \in DOMAIN parts :
                      is_pascal_case(parts[k]) /\ Dot \notin Range(parts[k])

\* is_valid_service_name(service_name)
is_valid_service_name(service_name) ==
    \A i \in DOMAIN service_name :
        IsAlnum(service_name[i]) \/ service_name[i] = "-"

(***************************************************************************)
(* Compliance rule engine                                                   *)
(***************************************************************************)
\* the (is_compliant, reason) pair; reason is the message without the path or
\* name the f-string puts into it
Verdict(ok, message) == [ok |-> ok, reason |-> message]

NoVerdict == [ok |-> FALSE, reason |-> "none"]

\* mutant of TypeSpecRule: the management branch forgets the service-name test
TypeSpecRule_NoServiceCheck(folder, path_parts, rel_path) ==
    IF is_management_plane(spec_base_path \o folder)
    THEN IF Len(path_parts) = 4 /\ path_parts[2] = RESOURCE_MANAGER
         THEN IF ~is_valid_namespace_pattern(path_parts[3])
              THEN Verdict(FALSE, "Non-compliant namespace pattern")
              ELSE Verdict(TRUE, "Compliant management plane TypeSpec project root")
         ELSE Verdict(FALSE, "Non-compliant management plane TypeSpec structure")
    ELSE IF Len(path_parts) = 3 /\ path_parts[2] = DATA_PLANE
         THEN IF ~is_valid_service_name(path_parts[3])
              THEN Verdict(FALSE, "Non-compliant service name")
              ELSE Verdict(TRUE, "Compliant data plane TypeSpec project root")
         ELSE Verdict(FALSE, "Non-compliant data plane TypeSpec structure")

\* mutant of TypeSpecRule: the data branch accepts deeper paths (>= 3 segments)
TypeSpecRule_PrefixShape(folder, path_parts, rel_path) ==
    IF is_management_plane(spec_base_path \o folder)
    THEN IF Len(path_parts) = 4 /\ path_parts[2] = RESOURCE_MANAGER
         THEN IF ~is_valid_namespace_pattern(path_parts[3])
              THEN Verdict(FALSE, "Non-compliant namespace pattern")
              ELSE IF ~is_valid_service_name(path_parts[4])
              THEN Verdict(FALSE, "Non-compliant service name")
              ELSE Verdict(TRUE, "Compliant management plane TypeSpec project root")
         ELSE Verdict(FALSE, "Non-compliant management plane TypeSpec structure")
    ELSE IF Len(path_parts) >= 3 /\ path_parts[2] = DATA_PLANE
         THEN IF ~is_valid_service_name(path_parts[3])
              THEN Verdict(FALSE, "Non-compliant service name")
              ELSE Verdict(TRUE, "Compliant data plane TypeSpec project root")
         ELSE Verdict(FALSE, "Non-compliant data plane TypeSpec structure")

\* mutant of TypeSpecRule: the management branch tests the service name before
\* the namespace
TypeSpecRule_ServiceFirst(folder, path_parts, rel_path) ==
    IF is_management_plane(spec_base_path \o folder)
    THEN IF Len(path_parts) = 4 /\ path_parts[2] = RESOURCE_MANAGER
         THEN IF ~is_valid_service_name(path_parts[4])
              THEN Verdict(FALSE, "Non-compliant service name")
              ELSE IF ~is_valid_namespace_pattern(path_parts[3])
              THEN Verdict(FALSE, "Non-compliant namespace pattern")
              ELSE Verdict(TRUE, "Compliant management plane TypeSpec project root")
         ELSE Verdict(FALSE, "Non-compliant management plane TypeSpec structure")
    ELSE IF Len(path_parts) = 3 /\ path_parts[2] = DATA_PLANE
         THEN IF ~is_valid_service_name(path_parts[3])
              THEN Verdict(FALSE, "Non-compliant service name")
              ELSE Verdict(TRUE, "Compliant data plane TypeSpec project root")
         ELSE Verdict(FALSE, "Non-compliant data plane TypeSpec structure")

\* Rule 1 of check_folder_structure_v2_compliance: TypeSpec project roots
TypeSpecRule(folder, path_parts, rel_path) ==
    IF is_management_plane(spec_base_path \o folder)
    THEN IF Len(path_parts) = 4 /\ path_parts[2] = RESOURCE_MANAGER
         THEN LET namespace_name == path_parts[3]
                  service_name   == path_parts[4]
              IN  IF ~is_valid_namespace_pattern(namespace_name)
                  THEN Verdict(FALSE, "Non-compliant namespace pattern")
                  ELSE IF ~is_valid_service_name(service_name)
                  THEN Verdict(FALSE, "Non-compliant service name")
                  ELSE Verdict(TRUE, "Compliant management plane TypeSpec project root")
         ELSE Verdict(FALSE, "Non-compliant management plane TypeSpec structure")
    ELSE IF Len(path_parts) = 3 /\ path_parts[2] = DATA_PLANE
         THEN LET service_name == path_parts[3]
              IN  IF ~is_valid_service_name(service_name)
                  THEN Verdict(FALSE, "Non-compliant service name")
                  ELSE Verdict(TRUE, "Compliant data plane TypeSpec project root")
         ELSE Verdict(FALSE, "Non-compliant data plane TypeSpec structure")

\* Rule 2 of check_folder_structure_v2_compliance: stable/preview folders
SwaggerRule(folder_name, path_parts, rel_path) ==
    IF Contains(rel_path, RESOURCE_MANAGER)
    THEN IF /\ Len(path_parts) = 5
            /\ path_parts[2] = RESOURCE_MANAGER
            /\ path_parts[5] = folder_name
         THEN LET namespace_name == path_parts[3]
                  service_name   == path_parts[4]
              IN  IF ~is_valid_namespace_pattern(namespace_name)
                  THEN Verdict(FALSE, "Non-compliant namespace pattern")
                  ELSE IF ~is_valid_service_name(service_name)
                  THEN Verdict(FALSE, "Non-compliant service name")
                  ELSE Verdict(TRUE, "Compliant management plane Swagger folder")
         ELSE Verdict(FALSE, "Non-compliant management plane Swagger structure")
    ELSE IF Contains(rel_path, DATA_PLANE)
    THEN IF /\ Len(path_parts) = 4
            /\ path_parts[2] = DATA_PLANE
            /\ path_parts[4] = folder_name
         THEN LET service_name == path_parts[3]
              IN  IF ~is_valid_service_name(service_name)
                  THEN Verdict(FALSE, "Non-compliant service name")
                  ELSE Verdict(TRUE, "Compliant data plane Swagger folder")
         ELSE Verdict(FALSE, "Non-compliant data plane Swagger structure")
    ELSE Verdict(FALSE, "Swagger folder not in resource-manager or data-plane structure")

\* check_folder_structure_v2_compliance(folder_path, spec_base_path); folder
\* is the part of folder_path below spec_base_path, files the names that
\* os.path.exists finds in the folder
check_folder_structure_v2_compliance(folder, files) ==
    LET rel_path    == RelPath(folder)
        path_parts  == Split(rel_path, "/")
        folder_name == Chars(Basename(spec_base_path \o folder))
        has_typespec == \E f \in {TSPCONFIG_YAML, MAIN_TSP} : \E g \in files : Chars(g) = f
        is_stable_preview_folder == Lower(folder_name) \in {STABLE, PREVIEW}
    IN  IF Len(path_parts) < 2
        THEN Verdict(FALSE, "Path too short")
        ELSE IF path_parts[1] \in {COMMON_TYPES}
        THEN Verdict(TRUE, "Shared/common folder - compliant")
        ELSE IF has_typespec
        THEN TypeSpecRule(folder, path_parts, rel_path)
        ELSE IF is_stable_preview_folder
        THEN SwaggerRule(folder_name, path_parts, rel_path)
        ELSE Verdict(FALSE, "Not a TypeSpec project root or Swagger stable/preview folder")

(***************************************************************************)
(* Specification of the compliance check over a bounded set of folders      *)
(***************************************************************************)
MaxDepth == 5

\* names of the organization directories under spec_base_path
OrgNames == {"co", "common-types", "X.Management"}

\* names of the directories below an organization directory
SegmentNames ==
    {"co", "resource-manager", "data-plane", "Ms.Co", "stable", "Preview",
     "resource-managers", "X.Management"}

\* the folders of the tree: an organization directory or a directory below one
FolderPaths ==
    { <<org>> \o below :
        org \in OrgNames,
        below \in UNION { [1..n -> SegmentNames] : n \in 0..(MaxDepth - 1) } }

MarkerSets == { {}, {"tspconfig.yaml"}, {"main.tsp"} }

\* the variables of the compliance check while another component runs
ComplianceIdle ==
    /\ folder_path = <<>>
    /\ folder_files = {}
    /\ verdict = NoVerdict
    /\ plane = "unknown"
    /\ cpc = "idle"

\* the variables of the namespace check while another component runs
NamespaceIdle ==
    /\ namespace = <<>>
    /\ ns_result = FALSE
    /\ npc = "idle"

\* the record of an organization before analyze_organization returns
NoRecord ==
    [total_folders |-> 0, compliant_folders |-> 0, non_compliant_folders |-> 0,
     org_fully_compliant |-> FALSE, is_simple_structure |-> TRUE]

\* the variables of the organization scanner while another component runs
ScannerIdle ==
    /\ tree = {}
    /\ typespec_projects = <<>>
    /\ all_folders = <<>>
    /\ compliant_folders = <<>>
    /\ non_compliant_folders = <<>>
    /\ org_record = NoRecord
    /\ opc = "idle"

\* the locals of an iteration of the readme loop before it has run
NoReadme == [default_tag |-> "", block |-> "none", api_versions |-> {}]

\* the variables of the version check while another component runs
ReadmeIdle ==
    /\ readme_files = <<>>
    /\ readme_index = 0
    /\ has_version_uniform_issue = FALSE
    /\ problematic_readmes = <<>>
    /\ last_readme = NoReadme
    /\ rpc = "idle"

\* the variables of the driver while another component runs
DriverIdle ==
    /\ spec_dir = <<>>
    /\ org_dirs = <<>>
    /\ results = <<>>
    /\ mpc = "idle"

\* the variables of the rpaas check while another component runs
RpaasIdle ==
    /\ rm_readme = {}
    /\ is_rpaas = FALSE
    /\ ppc = "idle"

ComplianceInit ==
    /\ DriverIdle
    /\ RpaasIdle
    /\ NamespaceIdle
    /\ ScannerIdle
    /\ ReadmeIdle
    /\ folder_path \in FolderPaths
    /\ folder_files = {}
    /\ verdict = NoVerdict
    /\ plane = "unknown"
    /\ cpc = "start"

\* analyze_organization classifies the folder and runs the compliance check
\* on it (lines 353-357 and 397-402)
AnalyzeFolder ==
    /\ cpc = "start"
    /\ folder_files' \in MarkerSets
    /\ plane' = IF is_management_plane(spec_base_path \o folder_path)
                THEN "Management" ELSE "Data"
    /\ verdict' = check_folder_structure_v2_compliance(folder_path, folder_files')
    /\ cpc' = "checked"
    /\ UNCHANGED <<folder_path, nvars, ovars, rvars, dvars, pvars>>

ComplianceNext == AnalyzeFolder

SpecCompliance == ComplianceInit /\ [][ComplianceNext]_vars

(***************************************************************************)
(* Properties of the path classifier and the compliance rule engine         *)
(***************************************************************************)
Checked == cpc = "checked"

\* the folder is a project root: it holds tspconfig.yaml or main.tsp
IsProjectRoot == (folder_files \cap {"tspconfig.yaml", "main.tsp"}) # {}

\* the folder's own name is case-insensitively "stable" or "preview"
IsStablePreview == Lower(Chars(Basename(folder_path))) \in {STABLE, PREVIEW}

\* the folder reaches rules 3-5: two segments at least, not under common-types
ReachesShapeRules == Len(folder_path) >= 2 /\ folder_path[1] # "common-types"

\* {org}/resource-manager/{namespace}/{service}
MgmtProjectShape == Len(folder_path) = 4 /\ folder_path[2] = "resource-manager"

\* {org}/data-plane/{service}
DataProjectShape == Len(folder_path) = 3 /\ folder_path[2] = "data-plane"

\* {org}/resource-manager/{namespace}/{service}/{versionFolder}
MgmtVersionShape == Len(folder_path) = 5 /\ folder_path[2] = "resource-manager"

\* {org}/data-plane/{service}/{versionFolder}
DataVersionShape == Len(folder_path) = 4 /\ folder_path[2] = "data-plane"

\* the plane classification by whole path segments: the last segment contains
\* ".Management" or some segment of the full path equals "resource-manager"
SegmentManagement ==
    LET full == spec_base_path \o folder_path
    IN  \/ Contains(Chars(Basename(full)), DOT_MANAGEMENT)
        \/ \E i \in DOMAIN full : full[i] = "resource-manager"

\* C1: a management-plane project root that is not under common-types and has
\* two segments at least is compliant iff its path is exactly
\* {org}/resource-manager/{namespace}/{service} with a valid namespace and a
\* valid service name.
C1_MgmtProjectCompliance ==
    (Checked /\ IsProjectRoot /\ ReachesShapeRules /\ plane = "Management")
        => (verdict.ok <=> /\ MgmtProjectShape
                           /\ is_valid_namespace_pattern(Chars(folder_path[3]))
                           /\ is_valid_service_name(Chars(folder_path[4])))

C1_Witness ==
    /\ Checked /\ IsProjectRoot /\ plane = "Management"
    /\ folder_path = <<"co", "resource-manager", "Ms.Co", "co">>
    /\ verdict.ok

\* C2: a data-plane project root that is not under common-types and has two
\* segments at least is compliant iff its path is exactly
\* {org}/data-plane/{service} with a valid service name.
C2_DataProjectCompliance ==
    (Checked /\ IsProjectRoot /\ ReachesShapeRules /\ plane = "Data")
        => (verdict.ok <=> /\ DataProjectShape
                           /\ is_valid_service_name(Chars(folder_path[3])))

C2_Witness ==
    /\ Checked /\ IsProjectRoot /\ plane = "Data"
    /\ folder_path = <<"co", "data-plane", "co">>
    /\ verdict.ok

\* C3: a stable/preview folder that is no project root is compliant iff, on the
\* management plane, its path is exactly
\* {org}/resource-manager/{namespace}/{service}/{versionFolder} with a valid
\* namespace and service name, or, on the data plane, exactly
\* {org}/data-plane/{service}/{versionFolder} with a valid service name.  The
\* plane is the one of C6 (by whole segments); stated for the folders that
\* reach the rule (not under common-types).
C3_VersionFolderCompliance ==
    (Checked /\ ~IsProjectRoot /\ IsStablePreview /\ ReachesShapeRules)
        => (verdict.ok <=>
               IF SegmentManagement
               THEN /\ MgmtVersionShape
                    /\ is_valid_namespace_pattern(Chars(folder_path[3]))
                    /\ is_valid_service_name(Chars(folder_path[4]))
               ELSE /\ DataVersionShape
                    /\ is_valid_service_name(Chars(folder_path[3])))

\* C4: every folder whose first segment is "common-types" is compliant with the
\* shared-folder reason, whatever its depth and its marker files.
C4_CommonTypesFirst ==
    (Checked /\ folder_path[1] = "common-types")
        => (verdict.ok /\ verdict.reason = "Shared/common folder - compliant")

\* C5 as stated: for every management-plane project root the shape reason is
\* returned exactly when the path is not {org}/resource-manager/{ns}/{svc}, the
\* namespace reason exactly when the shape is right and the namespace invalid,
\* the service-name reason exactly when shape and namespace are right and the
\* service name is invalid.
C5_ReasonsAsStated ==
    (Checked /\ IsProjectRoot /\ plane = "Management")
        => /\ (verdict.reason = "Non-compliant management plane TypeSpec structure")
                  <=> ~MgmtProjectShape
           /\ (verdict.reason = "Non-compliant namespace pattern")
                  <=> (MgmtProjectShape /\ ~is_valid_namespace_pattern(Chars(folder_path[3])))
           /\ (verdict.reason = "Non-compliant service name")
                  <=> (/\ MgmtProjectShape
                       /\ is_valid_namespace_pattern(Chars(folder_path[3]))
                       /\ ~is_valid_service_name(Chars(folder_path[4])))

\* C5 amended: the same for the management-plane project roots that are not
\* under common-types and have two segments at least; every non-compliant
\* verdict of such a folder carries one of the three reasons.
C5_ReasonsOfShapeRule ==
    (Checked /\ IsProjectRoot /\ plane = "Management" /\ ReachesShapeRules)
        => /\ (verdict.reason = "Non-compliant management plane TypeSpec structure")
                  <=> ~MgmtProjectShape
           /\ (verdict.reason = "Non-compliant namespace pattern")
                  <=> (MgmtProjectShape /\ ~is_valid_namespace_pattern(Chars(folder_path[3])))
           /\ (verdict.reason = "Non-compliant service name")
                  <=> (/\ MgmtProjectShape
                       /\ is_valid_namespace_pattern(Chars(folder_path[3]))
                       /\ ~is_valid_service_name(Chars(folder_path[4])))
           /\ ~verdict.ok =>
                  verdict.reason \in {"Non-compliant management plane TypeSpec structure",
                                      "Non-compliant namespace pattern",
                                      "Non-compliant service name"}

C5_Witness ==
    /\ Checked /\ IsProjectRoot /\ plane = "Management"
    /\ folder_path = <<"co", "resource-manager", "Ms.Co", "Ms.Co">>
    /\ verdict.reason = "Non-compliant service name"

\* C6: is_management_plane returns Management iff the last segment contains
\* ".Management" or a segment of the full path equals "resource-manager".
C6_PlaneBySegment ==
    Checked => ((plane = "Management") <=> SegmentManagement)

(***************************************************************************)
(* Specification of the namespace predicate over bounded strings            *)
(***************************************************************************)
MaxNamespaceLen == 5

\* one character of each class the predicate tells apart
NamespaceChars == {"A", "b", "1", ".", "-"}

NamespaceStrings == UNION { [1..n -> NamespaceChars] : n \in 0..MaxNamespaceLen }

NamespaceInit ==
    /\ DriverIdle
    /\ RpaasIdle
    /\ ComplianceIdle
    /\ ScannerIdle
    /\ ReadmeIdle
    /\ namespace \in NamespaceStrings
    /\ ns_result = FALSE
    /\ npc = "start"

\* the rule engine validates a namespace segment (lines 106 and 138)
ValidateNamespace ==
    /\ npc = "start"
    /\ ns_result' = is_valid_namespace_pattern(namespace)
    /\ npc' = "done"
    /\ UNCHANGED <<namespace, cvars, ovars, rvars, dvars, pvars>>

NamespaceNext == ValidateNamespace

SpecNamespace == NamespaceInit /\ [][NamespaceNext]_vars

\* the positions of the dots of a string
DotPositions(s) == {i \in DOMAIN s : s[i] = Dot}

\* C7: is_valid_namespace_pattern(s) is true iff s has exactly one dot and both
\* parts around it are non-empty, start with an uppercase letter and hold only
\* alphanumeric characters; it always returns a boolean.
C7_NamespacePattern ==
    npc = "done" =>
        /\ ns_result \in BOOLEAN
        /\ ns_result <=>
              /\ Cardinality(DotPositions(namespace)) = 1
              /\ LET d == CHOOSE i \in DotPositions(namespace) : TRUE
                 IN  /\ 1 < d /\ d < Len(namespace)
                     /\ IsUpper(namespace[1])
                     /\ IsUpper(namespace[d + 1])
                     /\ \A i \in DOMAIN namespace : i # d => IsAlnum(namespace[i])

C7_Witness ==
    /\ npc = "done"
    /\ namespace = <<"A", "b", ".", "A", "1">>
    /\ ns_result = TRUE

(***************************************************************************)
(* Organization scanner: analyze_organization                               *)
(***************************************************************************)
\* p is d or an ancestor of d
IsPrefix(p, d) == Len(p) <= Len(d) /\ SubSeq(d, 1, Len(p)) = p

\* the names of the files of directory d in tree t
FilesOf(t, d) == {Basename(f) : f \in {g \in t : Dirname(g) = d}}

\* the directories of the organization, in the order os.walk yields them
TreeDirs ==
    << <<"co">>,
       <<"co", "data-plane">>,
       <<"co", "data-plane", "stable">>,
       <<"co", "data-plane", "stable", "examples">>,
       <<"co", "resource-manager">>,
       <<"co", "resource-manager", "Ms.Co">>,
       <<"co", "resource-manager", "Ms.Co", "co">>,
       <<"co", "resource-manager", "Ms.Co", "co", "Preview">>,
       <<"co", "stable">> >>

\* the roots os.walk(top) yields when every directory named "examples"
\* (case-insensitively) is removed from dirs: top itself and the directories
\* below it that have no such segment below top
Walk(top) ==
    LET Visited(d) ==
            /\ IsPrefix(top, d)
            /\ \A k \in (Len(top) + 1)..Len(d) : Lower(Chars(d[k])) # EXAMPLES
    IN  SelectSeq(TreeDirs, Visited)

\* lines 336-343: the project roots, in walk order
FindTypespec(t, org_path) ==
    LET IsProject(root) ==
            \E f \in FilesOf(t, root) : Chars(f) = TSPCONFIG_YAML \/ Chars(f) = MAIN_TSP
    IN  SelectSeq(Walk(org_path), IsProject)

\* mutant of has_swagger_in_this_branch: any .json file below root counts
has_swagger_in_this_branch_AnyJson(t, root) ==
    \E file \in t : IsPrefix(root, file) /\ EndsWith(Chars(Basename(file)), DOT_JSON)

\* lines 379-391: a .json file in the branch of root, outside examples
has_swagger_in_this_branch(t, root) ==
    \E k \in DOMAIN Walk(root) :
        LET subroot == Walk(root)[k]
        IN  \E file \in FilesOf(t, subroot) :
                /\ EndsWith(Chars(file), DOT_JSON)
                /\ ~Contains(Lower(AbsPath(spec_base_path \o subroot \o <<file>>)), EXAMPLES)

\* mutant of FindVersionFolders: every folder that holds swagger files
FindVersionFolders_AnyName(t, org_path) ==
    LET HoldsSwagger(root) == has_swagger_in_this_branch(t, root)
    IN  SelectSeq(Walk(org_path), HoldsSwagger)

\* lines 370-394: the stable/preview folders that hold swagger files
FindVersionFolders(t, org_path) ==
    LET IsVersionFolder(root) ==
            /\ Lower(Chars(Basename(root))) \in {STABLE, PREVIEW}
            /\ has_swagger_in_this_branch(t, root)
    IN  SelectSeq(Walk(org_path), IsVersionFolder)

\* lines 350-358: the projects is_management_plane accepts
mgmt_typespec_projects(projects) ==
    LET IsMgmt(project) == is_management_plane(spec_base_path \o project)
    IN  SelectSeq(projects, IsMgmt)

\* lines 350-358: the other projects
data_typespec_projects(projects) ==
    LET IsData(project) == ~is_management_plane(spec_base_path \o project)
    IN  SelectSeq(projects, IsData)

\* lines 419-445 and 453-479: the parents of the stable/preview folders that
\* hold swagger files and have plane_dir in their path
stable_preview_parents(t, org_path, plane_dir) ==
    LET InPlane(root) ==
            /\ Lower(Chars(Basename(root))) \in {STABLE, PREVIEW}
            /\ Contains(AbsPath(spec_base_path \o root), plane_dir)
            /\ has_swagger_in_this_branch(t, root)
    IN  {Dirname(root) : root \in Range(SelectSeq(Walk(org_path), InPlane))}

\* mutant of is_simple_structure: only the management plane is compared
is_simple_structure_MgmtOnly(t, org_path, projects) ==
    ~(/\ Len(mgmt_typespec_projects(projects)) > 0
      /\ Cardinality(stable_preview_parents(t, org_path, RESOURCE_MANAGER))
             # Len(mgmt_typespec_projects(projects)))

\* lines 413-478
is_simple_structure(t, org_path, projects) ==
    /\ ~(/\ Len(mgmt_typespec_projects(projects)) > 0
         /\ Cardinality(stable_preview_parents(t, org_path, RESOURCE_MANAGER))
                # Len(mgmt_typespec_projects(projects)))
    /\ ~(/\ Len(data_typespec_projects(projects)) > 0
         /\ Cardinality(stable_preview_parents(t, org_path, DATA_PLANE))
                # Len(data_typespec_projects(projects)))

MaxFiles == 3

\* the names a file of the tree can have
FileNames == {"main.tsp", "a.json"}

\* the files a tree can hold
FilePaths ==
    {TreeDirs[k] \o <<f>> : k \in DOMAIN TreeDirs, f \in FileNames}
        \cup { <<"co", "stable", "examples.json">> }

\* the trees with at most MaxFiles files
Trees == {S \in SUBSET FilePaths : Cardinality(S) <= MaxFiles}

\* org_path below spec_base_path
OrgPath == TreeDirs[1]

ScannerInit ==
    /\ DriverIdle
    /\ RpaasIdle
    /\ ComplianceIdle
    /\ NamespaceIdle
    /\ ReadmeIdle
    /\ tree \in Trees
    /\ typespec_projects = <<>>
    /\ all_folders = <<>>
    /\ compliant_folders = <<>>
    /\ non_compliant_folders = <<>>
    /\ org_record = NoRecord
    /\ opc = "find_typespec"

\* lines 336-343
FindTypespecProjects ==
    /\ opc = "find_typespec"
    /\ typespec_projects' = FindTypespec(tree, OrgPath)
    /\ opc' = "collect"
    /\ UNCHANGED <<tree, all_folders, compliant_folders, non_compliant_folders,
                   org_record, cvars, nvars, rvars, dvars, pvars>>

\* lines 362-394: the project roots, then the stable/preview folders
CollectFolders ==
    /\ opc = "collect"
    /\ all_folders' = typespec_projects \o FindVersionFolders(tree, OrgPath)
    /\ opc' = "check"
    /\ UNCHANGED <<tree, typespec_projects, compliant_folders, non_compliant_folders,
                   org_record, cvars, nvars, rvars, dvars, pvars>>

\* the number of folders the loop of lines 397-402 has handled
NumChecked == Len(compliant_folders) + Len(non_compliant_folders)

\* lines 397-402: one iteration of the compliance loop
CheckNextFolder ==
    /\ opc = "check"
    /\ NumChecked < Len(all_folders)
    /\ LET folder == all_folders[NumChecked + 1]
           result == check_folder_structure_v2_compliance(folder, FilesOf(tree, folder))
       IN  IF result.ok
           THEN /\ compliant_folders' = Append(compliant_folders, folder)
                /\ UNCHANGED non_compliant_folders
           ELSE /\ non_compliant_folders' = Append(non_compliant_folders, <<folder, result>>)
                /\ UNCHANGED compliant_folders
    /\ UNCHANGED <<tree, typespec_projects, all_folders, org_record, opc, cvars, nvars, rvars, dvars, pvars>>

\* lines 410-411 and 480-508: the record returned
AssembleRecord ==
    /\ opc = "check"
    /\ NumChecked = Len(all_folders)
    /\ org_record' =
          [total_folders |-> Len(all_folders),
           compliant_folders |-> Len(compliant_folders),
           non_compliant_folders |-> Len(non_compliant_folders),
           org_fully_compliant |-> (Len(non_compliant_folders) = 0 /\ Len(all_folders) > 0),
           is_simple_structure |-> is_simple_structure(tree, OrgPath, typespec_projects)]
    /\ opc' = "done"
    /\ UNCHANGED <<tree, typespec_projects, all_folders, compliant_folders,
                   non_compliant_folders, cvars, nvars, rvars, dvars, pvars>>

ScannerNext ==
    \/ FindTypespecProjects
    \/ CollectFolders
    \/ CheckNextFolder
    \/ AssembleRecord

SpecScanner == ScannerInit /\ [][ScannerNext]_vars

\* the directories of the scan that are a project root or a version folder
AnchorFolders ==
    Range(FindTypespec(tree, OrgPath)) \cup Range(FindVersionFolders(tree, OrgPath))

\* how often folder d occurs in list s
Occurrences(s, d) == Cardinality({k \in DOMAIN s : s[k] = d})

\* C8: every distinct project root or version folder is checked exactly once
\* and lands in exactly one of the two collections, so compliant_folders +
\* non_compliant_folders = total_folders = the number of distinct such folders.
C8_EachAnchorCheckedOnce ==
    opc = "done" =>
        /\ org_record.compliant_folders + org_record.non_compliant_folders
               = org_record.total_folders
        /\ org_record.total_folders = Cardinality(AnchorFolders)
        /\ \A d \in AnchorFolders :
               Occurrences(compliant_folders, d)
                 + Occurrences([k \in DOMAIN non_compliant_folders |->
                                   non_compliant_folders[k][1]], d) = 1

(***************************************************************************)
(* Version-consistency analyzer: check_version_uniform_issues               *)
(*                                                                          *)
(* A readme is a sequence of lines.  A line is a heading ("## text"), a     *)
(* declaration ("key: value") or a fenced yaml block with its guard, written *)
(* "``` yaml $(tag) == 'T'" (guard "tag-eq") or "``` yaml $(T)" (guard       *)
(* "dollar"), together with what yaml.safe_load makes of its body.          *)
(***************************************************************************)
Heading(text) == [kind |-> "heading", text |-> text]

Decl(key, value) == [kind |-> "decl", key |-> key, value |-> value]

Block(guard, tag, yaml, input_file) ==
    [kind |-> "block", guard |-> guard, tag |-> tag, yaml |-> yaml, input_file |-> input_file]

BASIC_INFORMATION == Chars("Basic Information")
DEFAULT_TAG       == Chars("default-tag")
TAG               == Chars("tag")

\* s.startswith(prefix)
StartsWith(s, prefix) ==
    /\ Len(s) >= Len(prefix)
    /\ \A j \in 1..Len(prefix) : s[j] = prefix[j]

\* the least element of a non-empty set of numbers
Least(S) == CHOOSE x \in S : \A y \in S : x <= y

\* line 267: the pattern "## Basic Information" matches the heading line,
\* whatever the case of its letters
IsBasicHeading(line) ==
    /\ line.kind = "heading"
    /\ StartsWith(Lower(Chars(line.text)), Lower(BASIC_INFORMATION))

\* line 267-269: the text from the first "## Basic Information" up to the next
\* "##" or the end of the document; <<>> when there is no such heading
BasicInfoSection(content) ==
    LET starts == {i \in DOMAIN content : IsBasicHeading(content[i])}
    IN  IF starts = {} THEN <<>>
        ELSE LET i == Least(starts)
                 ends == {j \in DOMAIN content : j > i /\ content[j].kind = "heading"}
                 j == IF ends = {} THEN Len(content) + 1 ELSE Least(ends)
             IN  SubSeq(content, i, j - 1)

\* re.search(key + r':\s*(\S+)', section): the value of the first declaration
\* whose "key:" text contains the pattern's "key:"; "" for no match
SearchDecl(section, key) ==
    LET hits == {i \in DOMAIN section :
                    /\ section[i].kind = "decl"
                    /\ EndsWith(Chars(section[i].key), key)}
    IN  IF hits = {} THEN "" ELSE section[Least(hits)].value

\* mutant of ExtractDefaultTag: the bare tag declaration is looked for first
ExtractDefaultTag_TagFirst(content) ==
    LET basic_info_section == BasicInfoSection(content)
    IN  IF SearchDecl(basic_info_section, TAG) # ""
        THEN SearchDecl(basic_info_section, TAG)
        ELSE SearchDecl(basic_info_section, DEFAULT_TAG)

\* lines 265-278: the default tag of the document, "" for None
ExtractDefaultTag(content) ==
    LET basic_info_section == BasicInfoSection(content)
    IN  IF basic_info_section = <<>> THEN ""
        ELSE IF SearchDecl(basic_info_section, DEFAULT_TAG) # ""
        THEN SearchDecl(basic_info_section, DEFAULT_TAG)
        ELSE SearchDecl(basic_info_section, TAG)

\* lines 283-289: the index of the yaml block the tag patterns match, 0 for no
\* match: the first block guarded by $(tag) == 'default_tag', and when there
\* is none the first block guarded by $(default_tag)
FindTagBlock(content, default_tag) ==
    LET Guarded(g) == {i \in DOMAIN content :
                          /\ content[i].kind = "block"
                          /\ content[i].guard = g
                          /\ content[i].tag = default_tag}
    IN  IF Guarded("tag-eq") # {} THEN Least(Guarded("tag-eq"))
        ELSE IF Guarded("dollar") # {} THEN Least(Guarded("dollar"))
        ELSE 0

\* the pattern /(stable|preview)/([^/]+)/ matches s with its first "/" at p
VersionMatchAt(s, p, word) ==
    LET q == p + Len(word) + 1
    IN  /\ s[p] = "/"
        /\ q <= Len(s)
        /\ SubSeq(s, p + 1, q - 1) = word
        /\ s[q] = "/"
        /\ \E r \in (q + 2)..Len(s) :
               s[r] = "/" /\ \A k \in (q + 1)..(r - 1) : s[k] # "/"

\* line 311-313: group 2 of re.search(r'/(stable|preview)/([^/]+)/', s), as a
\* set: empty for no match, else the token of the leftmost match
VersionTokens(s) ==
    LET starts == {p \in DOMAIN s :
                      VersionMatchAt(s, p, STABLE) \/ VersionMatchAt(s, p, PREVIEW)}
    IN  IF starts = {} THEN {}
        ELSE LET p == Least(starts)
                 word == IF VersionMatchAt(s, p, STABLE) THEN STABLE ELSE PREVIEW
                 q == p + Len(word) + 1
                 r == Least({k \in (q + 1)..Len(s) : s[k] = "/"})
             IN  {SubSeq(s, q + 1, r - 1)}

\* an input-file entry that yaml.safe_load returns as something other than a
\* string (a number); re.search raises TypeError on it
NOT_A_STRING == <<"!!int">>

\* isinstance(input_file, str)
IsStr(input_file) == input_file # NOT_A_STRING

\* lines 306-314: the API versions of the input files
ApiVersions(input_files) ==
    UNION {VersionTokens(Join(PathChars(input_files[i]), Sep)) : i \in DOMAIN input_files}

\* mutant of ReadmeLocals: a non-string entry is passed over and the versions of
\* the other entries are kept
ReadmeLocals_KeepsCollected(content) ==
    LET default_tag == ExtractDefaultTag(content)
        b == FindTagBlock(content, default_tag)
    IN  IF default_tag = "" THEN [default_tag |-> "", block |-> "none", api_versions |-> {}]
        ELSE IF b = 0 THEN [default_tag |-> default_tag, block |-> "none", api_versions |-> {}]
        ELSE IF content[b].yaml # "dict"
        THEN [default_tag |-> default_tag, block |-> content[b].yaml, api_versions |-> {}]
        ELSE [default_tag |-> default_tag, block |-> "dict",
              api_versions |-> ApiVersions(SelectSeq(content[b].input_file, IsStr))]

\* lines 260-328: the locals one iteration of the loop ends with
ReadmeLocals(content) ==
    LET default_tag == ExtractDefaultTag(content)
        b == FindTagBlock(content, default_tag)
    IN  IF default_tag = "" THEN [default_tag |-> "", block |-> "none", api_versions |-> {}]
        ELSE IF b = 0 THEN [default_tag |-> default_tag, block |-> "none", api_versions |-> {}]
        ELSE IF content[b].yaml # "dict"
        THEN [default_tag |-> default_tag, block |-> content[b].yaml, api_versions |-> {}]
        ELSE IF \E i \in DOMAIN content[b].input_file : ~IsStr(content[b].input_file[i])
        THEN [default_tag |-> default_tag, block |-> "raised", api_versions |-> {}]
        ELSE [default_tag |-> default_tag, block |-> "dict",
              api_versions |-> ApiVersions(content[b].input_file)]

\* lines 261-263 and 326-328: open() or read() raising ends the iteration
ReadLocals(readme) ==
    IF readme.readable THEN ReadmeLocals(readme.content)
    ELSE [default_tag |-> "", block |-> "unreadable", api_versions |-> {}]

MaxLines == 4

\* input-file references
REF_STABLE_V1  == <<"Ms.Co", "stable", "v1", "a.json">>
REF_STABLE_V2  == <<"Ms.Co", "stable", "v2", "a.json">>
REF_PREVIEW_V1 == <<"Ms.Co", "preview", "v1", "a.json">>
REF_BARE_V1    == <<"stable", "v1", "a.json">>
REF_BARE_V2    == <<"stable", "v2", "a.json">>

\* the lines a readme is built from
ReadmeLines ==
    { Heading("Basic Information"),
      Heading("Configuration"),
      Decl("default-tag", "t1"),
      Decl("tag", "t2"),
      Block("tag-eq", "t1", "dict", <<REF_STABLE_V1, REF_STABLE_V2>>),
      Block("tag-eq", "t2", "dict", <<REF_STABLE_V1, REF_STABLE_V2>>),
      Block("tag-eq", "t1", "dict", <<REF_STABLE_V1, REF_PREVIEW_V1>>),
      Block("dollar", "t1", "dict", <<REF_STABLE_V1, REF_STABLE_V2>>),
      Block("tag-eq", "t2", "dict", <<REF_BARE_V1, REF_BARE_V2>>),
      Block("tag-eq", "t1", "error", <<>>) }

ReadmeContents == UNION { [1..n -> ReadmeLines] : n \in 0..MaxLines }

\* the path of the readme below org_path
README_PATH == <<"resource-manager", "readme.md">>

ReadmeInit ==
    /\ DriverIdle
    /\ RpaasIdle
    /\ ComplianceIdle
    /\ NamespaceIdle
    /\ ScannerIdle
    /\ readme_files \in {<<[path |-> README_PATH, readable |-> TRUE, content |-> c]>> : c \in ReadmeContents}
    /\ readme_index = 0
    /\ has_version_uniform_issue = FALSE
    /\ problematic_readmes = <<>>
    /\ last_readme = NoReadme
    /\ rpc = "loop"

\* lines 260-328: one iteration of the loop over readme_files
ProcessReadme ==
    /\ rpc = "loop"
    /\ readme_index < Len(readme_files)
    /\ LET readme == readme_files[readme_index + 1]
           locals == ReadLocals(readme)
       IN  /\ last_readme' = locals
           /\ IF Cardinality(locals.api_versions) > 1
              THEN /\ has_version_uniform_issue' = TRUE
                   /\ problematic_readmes' = Append(problematic_readmes, readme.path)
              ELSE UNCHANGED <<has_version_uniform_issue, problematic_readmes>>
    /\ readme_index' = readme_index + 1
    /\ UNCHANGED <<readme_files, rpc, cvars, nvars, ovars, dvars, pvars>>

\* line 330: return has_version_uniform_issue, problematic_readmes
ReturnVersionIssues ==
    /\ rpc = "loop"
    /\ readme_index = Len(readme_files)
    /\ rpc' = "done"
    /\ UNCHANGED <<readme_files, readme_index, has_version_uniform_issue,
                   problematic_readmes, last_readme, cvars, nvars, ovars, dvars, pvars>>

ReadmeNext == ProcessReadme \/ ReturnVersionIssues

SpecReadme == ReadmeInit /\ [][ReadmeNext]_vars

(***************************************************************************)
(* Properties of the version-consistency analyzer                           *)
(***************************************************************************)
\* the one document of the run
TheReadme == readme_files[1].content

\* the version-folder token of a reference: the segment after its first
\* "stable" or "preview" component that is followed by a further segment
RefTokens(ref) ==
    LET at == {i \in DOMAIN ref : ref[i] \in {"stable", "preview"} /\ i + 2 <= Len(ref)}
    IN  IF at = {} THEN {} ELSE {ref[Least(at) + 1]}

\* C9: when the default tag and its block are found and the block parses, the
\* document is flagged iff the block's input-file references name more than one
\* distinct version-folder token after a "stable" or "preview" component, also
\* when the references begin with the version folder.
C9_FlaggedIffSeveralVersions ==
    (rpc = "done" /\ last_readme.block = "dict") =>
        LET input_files == TheReadme[FindTagBlock(TheReadme, last_readme.default_tag)].input_file
            tokens == UNION {RefTokens(input_files[i]) : i \in DOMAIN input_files}
        IN  has_version_uniform_issue <=> Cardinality(tokens) > 1

\* the lines of the Basic Information section: after the first such heading,
\* before the next heading
InBasicInformation(k) ==
    \E h \in 1..(k - 1) :
        /\ TheReadme[h] = Heading("Basic Information")
        /\ \A g \in 1..(h - 1) : TheReadme[g] # Heading("Basic Information")
        /\ \A g \in (h + 1)..k : TheReadme[g].kind # "heading"

\* the values the section declares for a key
Declared(key) ==
    {TheReadme[k].value : k \in {i \in DOMAIN TheReadme :
                                     InBasicInformation(i) /\ TheReadme[i] \in {Decl(key, "t1"), Decl(key, "t2")}}}

\* C10: the default tag comes from the Basic Information section only: its
\* default-tag declaration when there is one, else its bare tag declaration;
\* with neither the document is not flagged and not listed.
C10_DefaultTagFromBasicInformation ==
    rpc = "done" =>
        /\ Declared("default-tag") # {} => last_readme.default_tag \in Declared("default-tag")
        /\ (Declared("default-tag") = {} /\ Declared("tag") # {})
               => last_readme.default_tag \in Declared("tag")
        /\ (Declared("default-tag") = {} /\ Declared("tag") = {})
               => /\ last_readme.default_tag = ""
                  /\ ~has_version_uniform_issue
                  /\ problematic_readmes = <<>>

\* a section with both declarations, the bare one first, and a mixed block for
\* each tag: the default-tag value decides
C10_Witness ==
    /\ rpc = "done"
    /\ TheReadme = << Heading("Basic Information"), Decl("tag", "t2"), Decl("default-tag", "t1"),
                      Block("tag-eq", "t2", "dict", <<REF_STABLE_V1, REF_STABLE_V2>>) >>
    /\ last_readme.default_tag = "t1"
    /\ ~has_version_uniform_issue

(***************************************************************************)
(* The version check over several readmes, some of them bad                 *)
(***************************************************************************)
MaxReadmes == 3

\* the directories below resource-manager that hold a readme, in os.walk order
ServiceDirs == <<"a", "b", "c", "d", "e">>

\* the Basic Information section every readme of the batch starts with
BatchHeader == <<Heading("Basic Information"), Decl("default-tag", "t1")>>

\* the readme of a kind, as the file on disk
BatchContent(kind) ==
    BatchHeader \o
    << CASE kind = "uniform"    -> Block("tag-eq", "t1", "dict", <<REF_STABLE_V1, REF_PREVIEW_V1>>)
         [] kind = "yaml-error" -> Block("tag-eq", "t1", "error", <<>>)
         [] kind = "bad-entry"  -> Block("tag-eq", "t1", "dict", <<REF_STABLE_V1, REF_STABLE_V2, NOT_A_STRING>>)
         [] OTHER               -> Block("tag-eq", "t1", "dict", <<REF_STABLE_V1, REF_STABLE_V2>>) >>

BatchKinds == {"mixed", "uniform", "yaml-error", "bad-entry", "unreadable"}

\* the i-th readme of the walk, of the given kind
BatchFile(i, kind) ==
    [path |-> <<"resource-manager", ServiceDirs[i], "readme.md">>,
     readable |-> kind # "unreadable",
     content |-> BatchContent(kind)]

BatchInit ==
    /\ DriverIdle
    /\ RpaasIdle
    /\ ComplianceIdle
    /\ NamespaceIdle
    /\ ScannerIdle
    /\ \E n \in 0..MaxReadmes : \E kinds \in [1..n -> BatchKinds] :
           readme_files = [i \in 1..n |-> BatchFile(i, kinds[i])]
    /\ readme_index = 0
    /\ has_version_uniform_issue = FALSE
    /\ problematic_readmes = <<>>
    /\ last_readme = NoReadme
    /\ rpc = "loop"

SpecReadmeBatch == BatchInit /\ [][ReadmeNext]_vars

\* a bad document: unreadable, or holding a block whose body does not parse or
\* whose input-file has an entry that is not a string
IsBadReadme(f) ==
    \/ ~f.readable
    \/ \E k \in DOMAIN f.content :
           /\ f.content[k].kind = "block"
           /\ \/ f.content[k].yaml = "error"
              \/ \E e \in DOMAIN f.content[k].input_file : f.content[k].input_file[e] = <<"!!int">>

IsGoodReadme(f) == ~IsBadReadme(f)

\* what the loop leaves for a sequence of readmes: the flag and the paths of
\* the readmes with more than one version, in order
VersionIssuesOf(files) ==
    LET Several(f) == Cardinality(ReadLocals(f).api_versions) > 1
        flagged == SelectSeq(files, Several)
    IN  [flag |-> flagged # <<>>, paths |-> [i \in DOMAIN flagged |-> flagged[i].path]]

\* C11: a bad document (unreadable, unparsable body, input-file entry of an
\* unexpected type) is skipped: the loop runs to the end of the sequence, no bad
\* document is listed, and the flag and the list returned are those of the same
\* sequence with the bad documents removed.
C11_BadDocumentSkipped ==
    rpc = "done" =>
        /\ readme_index = Len(readme_files)
        /\ \A i \in DOMAIN readme_files :
               IsBadReadme(readme_files[i]) =>
                   \A j \in DOMAIN problematic_readmes : problematic_readmes[j] # readme_files[i].path
        /\ [flag |-> has_version_uniform_issue, paths |-> problematic_readmes]
               = VersionIssuesOf(SelectSeq(readme_files, IsGoodReadme))

\* a non-string entry after two versions, a flagged readme, an unreadable one
C11_Witness ==
    /\ rpc = "done"
    /\ readme_files = <<BatchFile(1, "bad-entry"), BatchFile(2, "mixed"), BatchFile(3, "unreadable")>>
    /\ has_version_uniform_issue
    /\ problematic_readmes = << <<"resource-manager", "b", "readme.md">> >>

(***************************************************************************)
(* Properties of the simple-structure flag                                  *)
(***************************************************************************)
\* the plane the path classifier gives a directory
PlaneOf(d) ==
    IF \/ Contains(Chars(Basename(d)), DOT_MANAGEMENT)
       \/ \E i \in DOMAIN d : d[i] = "resource-manager"
    THEN "Management" ELSE "Data"

\* the project roots and the version folders the scan collected
CollectedProjects == Range(typespec_projects)

CollectedVersionFolders ==
    Range(SubSeq(all_folders, Len(typespec_projects) + 1, Len(all_folders)))

HasInPath(d, text) == \E i \in DOMAIN d : Contains(Chars(d[i]), text)

analyze_organization_VacuousCompliance(org_name, t) ==
    LET org_path == <<org_name>>
        projects == FindTypespec(t, org_path)
        folders == projects \o FindVersionFolders(t, org_path)
        Result(folder) == check_folder_structure_v2_compliance(folder, FilesOf(t, folder))
        IsCompliant(folder) == Result(folder).ok
        NotCompliant(folder) == ~Result(folder).ok
        compliant == SelectSeq(folders, IsCompliant)
        failing == SelectSeq(folders, NotCompliant)
    IN  [organization |-> org_name,
         total_typespec_projects |-> Len(projects),
         total_folders |-> Len(folders),
         compliant_folders |-> Len(compliant),
         non_compliant_folders |-> Len(failing),
         org_fully_compliant |-> (Len(failing) = 0),
         is_simple_structure |-> is_simple_structure(t, org_path, projects),
         non_compliant_details |-> [k \in DOMAIN failing |-> <<failing[k], Result(failing[k]).reason>>],
         all_folder_paths |-> folders]

\* lines 332-508: the record analyze_organization returns for the organization
\* org_name whose files are t
analyze_organization(org_name, t) ==
    LET org_path == <<org_name>>
        projects == FindTypespec(t, org_path)
        folders == projects \o FindVersionFolders(t, org_path)
        Result(folder) == check_folder_structure_v2_compliance(folder, FilesOf(t, folder))
        IsCompliant(folder) == Result(folder).ok
        NotCompliant(folder) == ~Result(folder).ok
        compliant == SelectSeq(folders, IsCompliant)
        failing == SelectSeq(folders, NotCompliant)
    IN  [organization |-> org_name,
         total_typespec_projects |-> Len(projects),
         total_folders |-> Len(folders),
         compliant_folders |-> Len(compliant),
         non_compliant_folders |-> Len(failing),
         org_fully_compliant |-> (Len(failing) = 0 /\ Len(folders) > 0),
         is_simple_structure |-> is_simple_structure(t, org_path, projects),
         non_compliant_details |-> [k \in DOMAIN failing |-> <<failing[k], Result(failing[k]).reason>>],
         all_folder_paths |-> folders]

\* lines 535-564: the entry for a failed analysis
FailedRecord(org_name, e) ==
    [organization |-> org_name,
     total_typespec_projects |-> 0,
     total_folders |-> 0,
     compliant_folders |-> 0,
     non_compliant_folders |-> 0,
     org_fully_compliant |-> FALSE,
     is_simple_structure |-> TRUE,
     non_compliant_details |-> <<>>,
     all_folder_paths |-> <<>>,
     error |-> e]

MaxOrgs == 2

\* the names an entry of spec_base_path can have
ItemNames == {"co", "common-types", ".github", "suppressions.yaml", "a.json"}

\* the trees the organization co can hold
DriverTrees ==
    { {},
      { <<"co", "resource-manager", "Ms.Co", "co", "main.tsp">>,
        <<"co", "resource-manager", "Ms.Co", "co", "Preview", "a.json">> },
      { <<"co", "data-plane", "main.tsp">>, <<"co", "data-plane", "stable", "a.json">> },
      { <<"co", "stable", "main.tsp">>, <<"co", "stable", "a.json">> } }

\* the entries a name can stand for: a.json is a file, the others directories;
\* only co holds files; the analysis of a directory can raise
Items(name) ==
    { [name |-> name, isdir |-> name # "a.json", tree |-> t, raises |-> e] :
        t \in (IF name = "co" THEN DriverTrees ELSE {{}}),
        e \in (IF name = "a.json" THEN {""} ELSE {"", "Permission denied"}) }

\* the listings of spec_base_path: up to MaxOrgs entries with distinct names
Listings ==
    UNION { {l \in [1..n -> UNION {Items(name) : name \in ItemNames}] :
                \A i, j \in 1..n : i # j => l[i].name # l[j].name} : n \in 0..MaxOrgs }

DriverInit ==
    /\ ComplianceIdle
    /\ NamespaceIdle
    /\ ScannerIdle
    /\ ReadmeIdle
    /\ RpaasIdle
    /\ spec_dir \in Listings
    /\ org_dirs = <<>>
    /\ results = <<>>
    /\ mpc = "list"

\* lines 515-519: the directories that are organizations
ListOrganizations ==
    /\ mpc = "list"
    /\ LET IsOrg(item) ==
               /\ item.isdir
               /\ Chars(item.name)[1] # "."
               /\ item.name # "suppressions.yaml"
           kept == SelectSeq(spec_dir, IsOrg)
       IN  org_dirs' = [k \in DOMAIN kept |-> <<kept[k].name>>]
    /\ mpc' = "loop"
    /\ UNCHANGED <<spec_dir, results, cvars, nvars, ovars, rvars, pvars>>

\* the entry of spec_base_path an organization directory is
ItemOf(org_path) == CHOOSE item \in Range(spec_dir) : <<item.name>> = org_path

\* the loop body of lines 525-564, a failure of the analysis wiping the list
AnalyzeNextOrg_FailureResets ==
    /\ mpc = "loop"
    /\ Len(results) < Len(org_dirs)
    /\ LET org_path == org_dirs[Len(results) + 1]
           org_name == Basename(org_path)
           item == ItemOf(org_path)
       IN  IF item.raises = ""
           THEN results' = Append(results, analyze_organization(org_name, item.tree))
           ELSE results' = <<FailedRecord(org_name, item.raises)>>
    /\ UNCHANGED <<spec_dir, org_dirs, mpc, cvars, nvars, ovars, rvars, pvars>>

\* lines 525-564: one iteration of the loop over org_dirs
AnalyzeNextOrg ==
    /\ mpc = "loop"
    /\ Len(results) < Len(org_dirs)
    /\ LET org_path == org_dirs[Len(results) + 1]
           org_name == Basename(org_path)
           item == ItemOf(org_path)
       IN  IF item.raises = ""
           THEN results' = Append(results, analyze_organization(org_name, item.tree))
           ELSE results' = Append(results, FailedRecord(org_name, item.raises))
    /\ UNCHANGED <<spec_dir, org_dirs, mpc, cvars, nvars, ovars, rvars, pvars>>

\* line 566: the loop is over, the summary of the records follows
Summarize ==
    /\ mpc = "loop"
    /\ Len(results) = Len(org_dirs)
    /\ mpc' = "summary"
    /\ UNCHANGED <<spec_dir, org_dirs, results, cvars, nvars, ovars, rvars, pvars>>

DriverNext == ListOrganizations \/ AnalyzeNextOrg \/ Summarize

SpecDriver == DriverInit /\ [][DriverNext]_vars

(***************************************************************************)
(* Properties of the driver                                                 *)
(***************************************************************************)
\* C13: the records follow the enumerated organizations one for one and in
\* order; a failed analysis leaves a placeholder with zero counts, empty lists,
\* default flags and the error text, and every other record is the one the
\* analysis of its own organization gives.
C13_OneRecordPerOrganization ==
    mpc \in {"loop", "summary"} =>
        /\ Len(results) <= Len(org_dirs)
        /\ mpc = "summary" => Len(results) = Len(org_dirs)
        /\ \A i \in DOMAIN results :
               LET item == ItemOf(org_dirs[i])
               IN  /\ results[i].organization = item.name
                   /\ item.raises # "" =>
                          results[i] = [organization |-> item.name,
                                        total_typespec_projects |-> 0,
                                        total_folders |-> 0,
                                        compliant_folders |-> 0,
                                        non_compliant_folders |-> 0,
                                        org_fully_compliant |-> FALSE,
                                        is_simple_structure |-> TRUE,
                                        non_compliant_details |-> <<>>,
                                        all_folder_paths |-> <<>>,
                                        error |-> item.raises]
                   /\ item.raises = "" =>
                          results[i] = analyze_organization(item.name, item.tree)

\* an organization analysed normally, then one whose analysis fails
C13_Witness ==
    /\ mpc = "summary"
    /\ Len(results) = 2
    /\ results[1].organization = "co"
    /\ results[1].total_folders = 2
    /\ results[1].org_fully_compliant
    /\ results[2].organization = "common-types"
    /\ results[2].error = "Permission denied"

\* C16: in every record of a run, normal or placeholder, org_fully_compliant
\* holds iff non_compliant_folders = 0 and total_folders > 0; an organization
\* without folders and one whose analysis failed are not fully compliant.
C16_FullyCompliantIff ==
    \A i \in DOMAIN results :
        /\ results[i].org_fully_compliant
               <=> (results[i].non_compliant_folders = 0 /\ results[i].total_folders > 0)
        /\ results[i].total_folders = 0 => ~results[i].org_fully_compliant
        /\ "error" \in DOMAIN results[i] => ~results[i].org_fully_compliant

\* a placeholder and the normal record of an organization without folders
C16_Witness ==
    /\ mpc = "summary"
    /\ Len(results) = 2
    /\ "error" \in DOMAIN results[1]
    /\ "error" \notin DOMAIN results[2]
    /\ results[2].total_folders = 0
    /\ ~results[1].org_fully_compliant
    /\ ~results[2].org_fully_compliant

(***************************************************************************)
(* RPaaS check: is_rpaas_service                                            *)
(*                                                                          *)
(* The files of the organization's resource-manager directory that the      *)
(* check looks at are a function from their names to [readable, content];   *)
(* the content is a sequence of words, one on each line.                    *)
(***************************************************************************)
OPENAPI_SUBTYPE == Chars("openapi-subtype:")
RPAAS           == Chars("rpaas")

\* f.read(): the words of the document, each followed by a newline
TextOf(content) == Join(PathChars(content), <<"\n">>)

\* mutant of is_rpaas_service: README.md is not looked at
is_rpaas_service_LowerCaseOnly(files) ==
    IF "readme.md" \notin DOMAIN files THEN FALSE
    ELSE IF ~files["readme.md"].readable THEN FALSE
    ELSE /\ Contains(TextOf(files["readme.md"].content), OPENAPI_SUBTYPE)
         /\ Contains(Lower(TextOf(files["readme.md"].content)), RPAAS)

\* lines 224-242
is_rpaas_service(files) ==
    LET rm_readme_path == IF "readme.md" \in DOMAIN files THEN "readme.md" ELSE "README.md"
    IN  IF rm_readme_path \notin DOMAIN files THEN FALSE
        ELSE IF ~files[rm_readme_path].readable THEN FALSE
        ELSE /\ Contains(TextOf(files[rm_readme_path].content), OPENAPI_SUBTYPE)
             /\ Contains(Lower(TextOf(files[rm_readme_path].content)), RPAAS)

MaxWords == 2

RpaasWords == {"openapi-subtype:", "OpenAPI-Subtype:", "rpaas", "RPaaS"}

RpaasDocs ==
    { [readable |-> r, content |-> c] :
        r \in BOOLEAN, c \in UNION { [1..n -> RpaasWords] : n \in 0..MaxWords } }

RpaasInit ==
    /\ ComplianceIdle
    /\ NamespaceIdle
    /\ ScannerIdle
    /\ ReadmeIdle
    /\ DriverIdle
    /\ rm_readme \in UNION { [names -> RpaasDocs] : names \in SUBSET {"readme.md", "README.md"} }
    /\ is_rpaas = FALSE
    /\ ppc = "start"

\* line 406: is_rpaas = is_rpaas_service(org_path)
CheckRpaas ==
    /\ ppc = "start"
    /\ is_rpaas' = is_rpaas_service(rm_readme)
    /\ ppc' = "done"
    /\ UNCHANGED <<rm_readme, cvars, nvars, ovars, rvars, dvars>>

RpaasNext == CheckRpaas

SpecRpaas == RpaasInit /\ [][RpaasNext]_vars

(***************************************************************************)
(* Properties of the RPaaS check                                            *)
(***************************************************************************)
\* the document of the organization: readme.md, or README.md without it
HasRmDocument == DOMAIN rm_readme # {}

RmDocument ==
    IF "readme.md" \in DOMAIN rm_readme THEN rm_readme["readme.md"] ELSE rm_readme["README.md"]

\* some word of the document, its case folded or not, contains the text
SomeWordHas(text, folded) ==
    \E k \in DOMAIN RmDocument.content :
        LET word == Chars(RmDocument.content[k])
        IN  Contains(IF folded THEN Lower(word) ELSE word, text)

\* C14: is_rpaas_service is true iff the resource-manager document exists and
\* its text contains "openapi-subtype:" and "rpaas", both matched without
\* regard to case; an unreadable document gives false.
C14_RpaasBothCaseInsensitive ==
    ppc = "done" =>
        /\ is_rpaas <=> /\ HasRmDocument
                        /\ RmDocument.readable
                        /\ SomeWordHas(OPENAPI_SUBTYPE, TRUE)
                        /\ SomeWordHas(RPAAS, TRUE)
        /\ (HasRmDocument /\ ~RmDocument.readable) => ~is_rpaas

\* C14 as the code has it: "openapi-subtype:" is matched in the case written,
\* only "rpaas" without regard to case.
C14_RpaasKeyCaseSensitive ==
    ppc = "done" =>
        /\ is_rpaas <=> /\ HasRmDocument
                        /\ RmDocument.readable
                        /\ SomeWordHas(OPENAPI_SUBTYPE, FALSE)
                        /\ SomeWordHas(RPAAS, TRUE)
        /\ (HasRmDocument /\ ~RmDocument.readable) => ~is_rpaas

\* only README.md exists, with the key in lower case and the value in mixed case
C14_Witness ==
    /\ ppc = "done"
    /\ DOMAIN rm_readme = {"README.md"}
    /\ rm_readme["README.md"] = [readable |-> TRUE, content |-> <<"openapi-subtype:", "RPaaS">>]
    /\ is_rpaas

(***************************************************************************)
(* Properties of the version-folder collection                              *)
(***************************************************************************)
\* the directories of the organization's subtree
SubtreeDirs == {d \in Range(TreeDirs) : IsPrefix(OrgPath, d)}

\* a directory named examples is among segments from..to of path p
UnderExamples(p, from, to) == \E k \in from..to : p[k] = "examples"

\* C15: the version folders collected are exactly the directories of the
\* subtree, outside any examples directory, named exactly "stable" or "preview"
\* that hold, at any depth and outside any examples subtree, a file with the
\* .json extension.
C15_VersionFoldersExactNames ==
    opc \in {"check", "done"} =>
        CollectedVersionFolders =
            {d \in SubtreeDirs :
                /\ Basename(d) \in {"stable", "preview"}
                /\ ~UnderExamples(d, Len(OrgPath) + 1, Len(d))
                /\ \E f \in tree :
                       /\ IsPrefix(d, f)
                       /\ EndsWith(Chars(Basename(f)), DOT_JSON)
                       /\ ~UnderExamples(f, Len(d) + 1, Len(f) - 1)}

\* C15 as the code has it: the name is "stable" or "preview" in any letter
\* case, and the .json file counts only when no segment of its path, its own
\* name included, contains the text "examples" in any letter case.
C15_VersionFoldersAsCollected ==
    opc \in {"check", "done"} =>
        CollectedVersionFolders =
            {d \in SubtreeDirs :
                /\ Lower(Chars(Basename(d))) \in {Chars("stable"), Chars("preview")}
                /\ \E f \in tree :
                       /\ IsPrefix(d, f)
                       /\ EndsWith(Chars(Basename(f)), DOT_JSON)
                       /\ \A k \in DOMAIN f : ~Contains(Lower(Chars(f[k])), Chars("examples"))}

\* a stable folder whose only .json file lies under examples, and a Preview
\* folder holding one outside
C15_Witness ==
    /\ opc = "done"
    /\ tree = { <<"co", "data-plane", "stable", "examples", "a.json">>,
                <<"co", "resource-manager", "Ms.Co", "co", "Preview", "a.json">> }
    /\ CollectedVersionFolders = { <<"co", "resource-manager", "Ms.Co", "co", "Preview">> }

(***************************************************************************)
(* Properties of the reasons the scanner records                            *)
(***************************************************************************)
\* the reasons of the entries of non_compliant_folders
RecordedReasons == {non_compliant_folders[k][2].reason : k \in DOMAIN non_compliant_folders}

\* C17: the scanner hands the compliance check project roots and stable/preview
\* folders only, so the fall-through verdict of rule 5 is never recorded; every
\* recorded reason is a path-too-short, shape, namespace, service-name or
\* not-under-either-plane reason.
C17_FallThroughNeverRecorded ==
    /\ "Not a TypeSpec project root or Swagger stable/preview folder" \notin RecordedReasons
    /\ RecordedReasons \subseteq
           { "Path too short",
             "Non-compliant management plane TypeSpec structure",
             "Non-compliant data plane TypeSpec structure",
             "Non-compliant management plane Swagger structure",
             "Non-compliant data plane Swagger structure",
             "Non-compliant namespace pattern",
             "Non-compliant service name",
             "Swagger folder not in resource-manager or data-plane structure" }

\* a project root at the organization, a version folder under neither plane and
\* a version folder of the wrong depth have been recorded
C17_Witness ==
    /\ opc = "done"
    /\ RecordedReasons = { "Path too short",
                           "Swagger folder not in resource-manager or data-plane structure",
                           "Non-compliant data plane Swagger structure" }

====
